---- MODULE Spec2Model ----
(***************************************************************************)
(* MapPointSeries (marker binding, relational resolution, placement) and   *)
(* Candlestick (redraw-on-dirty, wick drawing) as state machines.          *)
(*                                                                         *)
(* Encoding conventions                                                    *)
(*   - an optional value (undefined in the source) is a sequence of length *)
(*     0 or 1: None is <<>>, Some(v) is <<v>>;                             *)
(*   - a geographic position [longitude, latitude] is a pair <<lon, lat>>; *)
(*   - a geometry is [type, coordinates] where coordinates is a sequence   *)
(*     of positions; a Point holds its single position as the only element *)
(*     of that sequence (PointCoordinates reads it);                       *)
(*   - positionOnLine is counted in thousandths (500 is 0.5);              *)
(*   - a sibling entry (line or polygon data item) is [series, id], the    *)
(*     position of its series in chart.series and its identifier, and its  *)
(*     mapLine / mapPolygon is identified with it.                         *)
(***************************************************************************)
EXTENDS Integers, Sequences, FiniteSets, TLC

\* ------------------------------------------------------------ bounds
MaxSeries == 3
MaxCoords == 2
BulletFunctions == 2
MaxSets == 3
SpritelessBullets == 1

\* --------------------------------------------------- program constants
\* 0.002 of MapPointSeries.ts:254-255, in thousandths
Epsilon == 2

None == <<>>
Some(v) == <<v>>

VARIABLES
    chart,        \* this.chart is set (the series is in a chart)
    series,       \* chart.series, in insertion order: [type, ids]
    clipFront,    \* this.get("clipFront")
    clipBack,     \* this.get("clipBack")
    bulletFns,    \* number of bullet factories in this.bullets
    dataItem,     \* the entry: the fields of IMapPointSeriesDataItem
    bullets,      \* dataItem.bullets: [index, sprite]
    geometries,   \* the geometry store fed by _addGeometry
    calls         \* the _positionBullet calls made by the last step, with their locals

mapVars == <<chart, series, clipFront, clipBack, bulletFns, dataItem, bullets, geometries, calls>>

VARIABLES
    settings,     \* Candlestick: this._settings, attribute -> value
    dirty,        \* Candlestick: the attributes isDirty() answers true for
    clear,        \* Candlestick: this._clear
    display,      \* Candlestick: the path held by this._display
    phase,        \* Candlestick: where the change cycle stands
    sets          \* Candlestick: number of attribute writes so far

candleVars == <<settings, dirty, clear, display, phase, sets>>

vars == <<mapVars, candleVars>>

\* ------------------------------------------------ consumed collaborators
\* $type.isNumber
IsNumber(v) == v # None

\* series.isType(name)
IsType(s, name) == s.type = name

\* series.getDataItemById(id) of the series at position k of chart.series
GetDataItemById(s, k, id) == IF id \in s.ids THEN Some([series |-> k, id |-> id]) ELSE None

\* polygon.visualCentroid() of the polygon of sibling entry di
VisualCentroid(di) == <<di.series - 1, 10 * di.series + (IF di.id = "a" THEN 0 ELSE 1)>>

\* line.positionToGeoPoint(q) of the line of sibling entry di: the line of the
\* series at position 2 runs west, that of position 3 north (and leaves the
\* projectable range at q = 500), any later one north-east
PositionToGeoPoint(di, q) ==
    IF di.series <= 2 THEN <<501 - q, 1>>
    ELSE IF di.series = 3 THEN <<2, q - 410>>
    ELSE <<q - 500 + di.series, q - 500>>

\* chart.get("projection"): no result at or beyond latitude 90
Projection(c) == IF c[2] >= 90 THEN None ELSE Some(<<100 + 2 * c[1], 50 - c[2]>>)

\* chart.convert(geoPoint): the screen point of a geo point
Convert(g) == <<100 + 2 * g[1], 50 - g[2]>>

\* chart.getPrivate("geoPath")(geometry): truthy when the geometry is in the
\* renderable path (here: the hemisphere of longitudes up to 1)
GeoPath(geometry) == \E i \in 1..Len(geometry.coordinates) : geometry.coordinates[i][1] <= 1

Sign(n) == IF n > 0 THEN 1 ELSE IF n < 0 THEN -1 ELSE 0

\* $math.getAngle(point0, point1): the bearing in degrees, 0..359, on the
\* eight directions the model's lines can take
GetAngle(p0, p1) ==
    LET dx == Sign(p1[1] - p0[1])
        dy == Sign(p1[2] - p0[2])
    IN  IF dx = 1 /\ dy = 0 THEN 0
        ELSE IF dx = 1 /\ dy = 1 THEN 45
        ELSE IF dx = 0 /\ dy = 1 THEN 90
        ELSE IF dx = -1 /\ dy = 1 THEN 135
        ELSE IF dx = -1 /\ dy = 0 THEN 180
        ELSE IF dx = -1 /\ dy = -1 THEN 225
        ELSE IF dx = 0 /\ dy = -1 THEN 270
        ELSE IF dx = 1 /\ dy = -1 THEN 315
        ELSE 0

\* ------------------------------------------------------------ geometry
Point(c) == [type |-> "Point", coordinates |-> <<c>>]
PointCoordinates(geometry) == geometry.coordinates[1]


\* ------------------------------------------- MapPointSeries._positionBullet
\* SeriesEach that asks every series for the identifier, whatever its type
RECURSIVE SeriesEachAnyType(_, _, _, _)
SeriesEachAnyType(type, id, k, acc) ==
    IF k > Len(series) THEN acc
    ELSE LET found == GetDataItemById(series[k], k, id)
         IN  SeriesEachAnyType(type, id, k + 1,
                 [ref     |-> IF found # None THEN found ELSE acc.ref,
                  visited |-> acc.visited + 1,
                  writes  |-> IF found # None THEN acc.writes + 1 ELSE acc.writes])

\* chart.series.each(...) of the resolver, from position k on: every series
\* is visited; each one of the wanted type that has the identifier writes the
\* entry's reference and the local line / polygon
RECURSIVE SeriesEach(_, _, _, _)
SeriesEach(type, id, k, acc) ==
    IF k > Len(series) THEN acc
    ELSE LET found == IF IsType(series[k], type) THEN GetDataItemById(series[k], k, id) ELSE None
         IN  SeriesEach(type, id, k + 1,
                 [ref     |-> IF found # None THEN found ELSE acc.ref,
                  visited |-> acc.visited + 1,
                  writes  |-> IF found # None THEN acc.writes + 1 ELSE acc.writes])
\* Resolve that remembers a failed scan by caching a placeholder entry
ResolveNegativeCache(type, cached, id) ==
    IF cached # None THEN [ref |-> cached, local |-> cached, visited |-> 0, writes |-> 0]
    ELSE IF id # None /\ chart
    THEN LET r == SeriesEach(type, id[1], 1, [ref |-> None, visited |-> 0, writes |-> 0])
         IN  [ref |-> IF r.ref = None THEN Some([series |-> 0, id |-> id[1]]) ELSE r.ref,
              local |-> r.ref, visited |-> r.visited, writes |-> r.writes]
    ELSE [ref |-> None, local |-> None, visited |-> 0, writes |-> 0]

\* Resolve that caches what the scan finds and leaves the call's local unset
ResolveCacheOnly(type, cached, id) ==
    IF cached # None THEN [ref |-> cached, local |-> cached, visited |-> 0, writes |-> 0]
    ELSE IF id # None /\ chart
    THEN LET r == SeriesEach(type, id[1], 1, [ref |-> None, visited |-> 0, writes |-> 0])
         IN  [ref |-> r.ref, local |-> None, visited |-> r.visited, writes |-> r.writes]
    ELSE [ref |-> None, local |-> None, visited |-> 0, writes |-> 0]

\* Resolve that scans whenever there is an identifier, cached reference or not
ResolveAlwaysScan(type, cached, id) ==
    IF id # None /\ chart
    THEN LET r == SeriesEach(type, id[1], 1, [ref |-> cached, visited |-> 0, writes |-> 0])
         IN  [ref |-> r.ref, local |-> r.ref, visited |-> r.visited, writes |-> r.writes]
    ELSE [ref |-> cached, local |-> cached, visited |-> 0, writes |-> 0]

\* the resolver for one reference: cached is the entry's lineDataItem /
\* polygonDataItem, id its lineId / polygonId. ref is the entry's reference
\* after it, local the line / polygon the call goes on with
Resolve(type, cached, id) ==
    IF cached # None THEN [ref |-> cached, local |-> cached, visited |-> 0, writes |-> 0]
    ELSE IF id # None /\ chart
    THEN LET r == SeriesEach(type, id[1], 1, [ref |-> None, visited |-> 0, writes |-> 0])
         IN  [ref |-> r.ref, local |-> r.ref, visited |-> r.visited, writes |-> r.writes]
    ELSE [ref |-> None, local |-> None, visited |-> 0, writes |-> 0]

\* Visible with the two settings taken for each other
VisibleSwapped(inside) ==
    IF inside THEN ~clipBack ELSE ~clipFront

\* the visibility of the final placement step
Visible(inside) ==
    IF inside THEN ~clipFront ELSE ~clipBack
\* PositionBulletReal that takes the marker's position away when the
\* projection has no result
PositionBulletRealUnsetting(sprite, di, geometry, coordinates) ==
    IF ~chart THEN sprite
    ELSE LET xy == Projection(coordinates)
             s1 == IF xy # None THEN [sprite EXCEPT !.x = Some(xy[1][1]), !.y = Some(xy[1][2])]
                   ELSE [sprite EXCEPT !.x = None, !.y = None]
             s2 == [s1 EXCEPT !.visible = Some(Visible(GeoPath(geometry)))]
         IN  IF di.autoRotate
             THEN [s2 EXCEPT !.rotation = Some(IF di.autoRotateAngle # None THEN di.autoRotateAngle[1] ELSE 0)]
             ELSE s2

\* MapPointSeries._positionBulletReal: the sprite after the call
PositionBulletReal(sprite, di, geometry, coordinates) ==
    IF ~chart THEN sprite
    ELSE LET xy == Projection(coordinates)
             s1 == IF xy # None THEN [sprite EXCEPT !.x = Some(xy[1][1]), !.y = Some(xy[1][2])] ELSE sprite
             s2 == [s1 EXCEPT !.visible = Some(Visible(GeoPath(geometry)))]
         IN  IF di.autoRotate
             THEN [s2 EXCEPT !.rotation = Some(IF di.autoRotateAngle # None THEN di.autoRotateAngle[1] ELSE 0)]
             ELSE s2

\* Branch with the line tried before the polygon
BranchLineFirst(di, line, polygon) ==
    IF line # None /\ IsNumber(di.positionOnLine) THEN "line"
    ELSE IF polygon # None THEN "polygon"
    ELSE IF IsNumber(di.longitude) /\ IsNumber(di.latitude) THEN "lonlat"
    ELSE "geometry"

\* Branch with the stored geometry tried before longitude / latitude
BranchGeometryFirst(di, line, polygon) ==
    IF polygon # None THEN "polygon"
    ELSE IF line # None /\ IsNumber(di.positionOnLine) THEN "line"
    ELSE IF di.geometry # None THEN "geometry"
    ELSE IF IsNumber(di.longitude) /\ IsNumber(di.latitude) THEN "lonlat"
    ELSE "geometry"

\* the fallback order of _positionBullet once line and polygon are known
Branch(di, line, polygon) ==
    IF polygon # None THEN "polygon"
    ELSE IF line # None /\ IsNumber(di.positionOnLine) THEN "line"
    ELSE IF IsNumber(di.longitude) /\ IsNumber(di.latitude) THEN "lonlat"
    ELSE "geometry"

\* AutoRotateAngle with the two sample points taken in the other order
AutoRotateAngleReversed(di, line) ==
    IF di.autoRotate /\ chart
    THEN Some(GetAngle(Convert(PositionToGeoPoint(line, di.positionOnLine[1] + Epsilon)),
                       Convert(PositionToGeoPoint(line, di.positionOnLine[1] - Epsilon))))
    ELSE None

\* the autoRotateAngle the line branch writes to the entry (None: no write)
AutoRotateAngle(di, line) ==
    IF di.autoRotate /\ chart
    THEN Some(GetAngle(Convert(PositionToGeoPoint(line, di.positionOnLine[1] - Epsilon)),
                       Convert(PositionToGeoPoint(line, di.positionOnLine[1] + Epsilon))))
    ELSE None
\* GeometryCoordinates that falls back to [0, 0] when the entry has no geometry
GeometryCoordinatesDefaulting(di, bullet) ==
    IF di.geometry = None
    THEN [branch |-> "none", coordinates |-> Some(<<0, 0>>)]
    ELSE IF di.geometry[1].type = "Point"
    THEN [branch |-> "point", coordinates |-> None]
    ELSE IF di.geometry[1].type = "MultiPoint"
    THEN LET index == IF bullet.index # None THEN bullet.index[1] ELSE 0
         IN  [branch |-> "multipoint",
              coordinates |-> IF index + 1 <= Len(di.geometry[1].coordinates)
                              THEN Some(di.geometry[1].coordinates[index + 1]) ELSE None]
    ELSE [branch |-> "none", coordinates |-> None]

\* the stored-geometry branch: [branch, coordinates], coordinates being the
\* local of that name ("point" places by itself and leaves it undefined)
GeometryCoordinates(di, bullet) ==
    IF di.geometry = None
    THEN [branch |-> "none", coordinates |-> None]
    ELSE IF di.geometry[1].type = "Point"
    THEN [branch |-> "point", coordinates |-> None]
    ELSE IF di.geometry[1].type = "MultiPoint"
    THEN LET index == IF bullet.index # None THEN bullet.index[1] ELSE 0
         IN  [branch |-> "multipoint",
              coordinates |-> IF index + 1 <= Len(di.geometry[1].coordinates)
                              THEN Some(di.geometry[1].coordinates[index + 1]) ELSE None]
    ELSE [branch |-> "none", coordinates |-> None]

\* [branch, coordinates, angle] of one _positionBullet call
ChooseCoordinates(di, bullet, line, polygon) ==
    LET branch == Branch(di, line, polygon)
    IN  IF branch = "polygon"
        THEN [branch |-> branch, coordinates |-> Some(VisualCentroid(polygon[1])), angle |-> None]
        ELSE IF branch = "line"
        THEN [branch |-> branch,
              coordinates |-> Some(PositionToGeoPoint(line[1], di.positionOnLine[1])),
              angle |-> AutoRotateAngle(di, line[1])]
        ELSE IF branch = "lonlat"
        THEN [branch |-> branch, coordinates |-> Some(<<di.longitude[1], di.latitude[1]>>), angle |-> None]
        ELSE LET g == GeometryCoordinates(di, bullet)
             IN  [branch |-> g.branch, coordinates |-> g.coordinates, angle |-> None]
\* PositionBullet whose Point branch also sets the local coordinates, so that
\* the final placement step runs a second time at the end of the call
PositionBulletPointTwice(di, bullet) ==
        IF bullet.sprite = None
        THEN [dataItem |-> di, bullet |-> bullet,
              call |-> [sprite |-> FALSE, lineDataItem |-> None, polygonDataItem |-> None,
                        line |-> None, polygon |-> None, lineVisited |-> 0, polygonVisited |-> 0,
                        lineWrites |-> 0, polygonWrites |-> 0, branch |-> "none", real |-> <<>>]]
        ELSE
        LET l == Resolve("MapLineSeries", di.lineDataItem, di.lineId)
            p == Resolve("MapPolygonSeries", di.polygonDataItem, di.polygonId)
            c == ChooseCoordinates(di, bullet, l.local, p.local)
            di1 == [di EXCEPT !.lineDataItem = l.ref, !.polygonDataItem = p.ref,
                              !.autoRotateAngle = IF c.angle # None THEN c.angle ELSE @]
            real == IF c.branch = "point"
                    THEN <<[geometry |-> di.geometry[1], coordinates |-> PointCoordinates(di.geometry[1])],
                           [geometry |-> Point(PointCoordinates(di.geometry[1])),
                            coordinates |-> PointCoordinates(di.geometry[1])]>>
                    ELSE IF c.coordinates # None
                    THEN <<[geometry |-> Point(c.coordinates[1]), coordinates |-> c.coordinates[1]]>>
                    ELSE <<>>
            sprite == IF real = <<>> THEN bullet.sprite[1]
                      ELSE PositionBulletReal(bullet.sprite[1], di1, real[1].geometry, real[1].coordinates)
        IN  [dataItem |-> di1,
             bullet |-> [bullet EXCEPT !.sprite = Some(sprite)],
             call |-> [sprite |-> TRUE,
                       lineDataItem |-> di.lineDataItem, polygonDataItem |-> di.polygonDataItem,
                       line |-> l.local, polygon |-> p.local,
                       lineVisited |-> l.visited, polygonVisited |-> p.visited,
                       lineWrites |-> l.writes, polygonWrites |-> p.writes,
                       branch |-> c.branch, real |-> real]]

\* MapPointSeries._positionBullet(bullet), the bullet's entry being di: the
\* entry and the bullet after the call, and the call's locals
PositionBullet(di, bullet) ==
        IF bullet.sprite = None
        THEN [dataItem |-> di, bullet |-> bullet,
              call |-> [sprite |-> FALSE, lineDataItem |-> None, polygonDataItem |-> None,
                        line |-> None, polygon |-> None, lineVisited |-> 0, polygonVisited |-> 0,
                        lineWrites |-> 0, polygonWrites |-> 0, branch |-> "none", real |-> <<>>]]
        ELSE
        LET l == Resolve("MapLineSeries", di.lineDataItem, di.lineId)
            p == Resolve("MapPolygonSeries", di.polygonDataItem, di.polygonId)
            c == ChooseCoordinates(di, bullet, l.local, p.local)
            di1 == [di EXCEPT !.lineDataItem = l.ref, !.polygonDataItem = p.ref,
                              !.autoRotateAngle = IF c.angle # None THEN c.angle ELSE @]
            real == IF c.branch = "point"
                    THEN <<[geometry |-> di.geometry[1], coordinates |-> PointCoordinates(di.geometry[1])]>>
                    ELSE IF c.coordinates # None
                    THEN <<[geometry |-> Point(c.coordinates[1]), coordinates |-> c.coordinates[1]]>>
                    ELSE <<>>
            sprite == IF real = <<>> THEN bullet.sprite[1]
                      ELSE PositionBulletReal(bullet.sprite[1], di1, real[1].geometry, real[1].coordinates)
        IN  [dataItem |-> di1,
             bullet |-> [bullet EXCEPT !.sprite = Some(sprite)],
             call |-> [sprite |-> TRUE,
                       lineDataItem |-> di.lineDataItem, polygonDataItem |-> di.polygonDataItem,
                       line |-> l.local, polygon |-> p.local,
                       lineVisited |-> l.visited, polygonVisited |-> p.visited,
                       lineWrites |-> l.writes, polygonWrites |-> p.writes,
                       branch |-> c.branch, real |-> real]]


\* _positionBullets(dataItem): _positionBullet on every bullet of the entry in
\* order, from position b on; acc is [dataItem, bullets, calls]
RECURSIVE PositionBullets(_, _)
PositionBullets(b, acc) ==
    IF b > Len(bullets) THEN acc
    ELSE LET r == PositionBullet(acc.dataItem, acc.bullets[b])
         IN  PositionBullets(b + 1,
                 [dataItem |-> r.dataItem,
                  bullets  |-> [acc.bullets EXCEPT ![b] = r.bullet],
                  calls    |-> Append(acc.calls, r.call)])

\* --------------------------------------------- MapPointSeries._makeBullets
NewSprite == [x |-> None, y |-> None, visible |-> None, rotation |-> None]

\* _makeBullet(dataItem, bulletFunction, index): the factory's marker, bound
\* to the entry with the index given
MakeBullet(list, index) == Append(list, [index |-> index, sprite |-> Some(NewSprite)])

\* MakeMultiBullets counting the coordinates from 1
RECURSIVE MakeMultiBulletsFromOne(_, _, _)
MakeMultiBulletsFromOne(list, geometry, i) ==
    IF i >= Len(geometry.coordinates) THEN list
    ELSE MakeMultiBulletsFromOne(MakeBullet(list, Some(i + 1)), geometry, i + 1)

\* the loop body of _makeBullets for one bullet factory: the markers it adds
\* to list for the geometry given
RECURSIVE MakeMultiBullets(_, _, _)
MakeMultiBullets(list, geometry, i) ==
    IF i >= Len(geometry.coordinates) THEN list
    ELSE MakeMultiBullets(MakeBullet(list, Some(i)), geometry, i + 1)

MakeBulletsFor(list, geometry) ==
    IF geometry = None THEN list
    ELSE IF geometry[1].type = "Point" THEN MakeBullet(list, None)
    ELSE MakeMultiBullets(list, geometry[1], 0)
\* TypeAfterMakeBullets of a loop body that compares the type and assigns nothing
TypeKeptByMakeBullets(geometry) == geometry

\* the geometry after the loop body ran: `geometry.type = "MultiPoint"` is an
\* assignment
TypeAfterMakeBullets(geometry) ==
    IF geometry = None \/ geometry[1].type = "Point" THEN geometry
    ELSE Some([geometry[1] EXCEPT !.type = "MultiPoint"])

RECURSIVE MakeBulletsEach(_, _, _)
MakeBulletsEach(list, geometry, fns) ==
    IF fns = 0 THEN [bullets |-> list, geometry |-> geometry]
    ELSE MakeBulletsEach(MakeBulletsFor(list, geometry), TypeAfterMakeBullets(geometry), fns - 1)

\* -------------------------------------------------------------- Candlestick
\* the eight wick coordinates of ICandlestickSettings
WickKeys == {"lowX0", "lowY0", "lowX1", "lowY1", "highX0", "highY0", "highX1", "highY1"}

\* an attribute inherited from the rounded rectangle, which redraws on it
BoxKeys == {"width"}

Keys == WickKeys \cup {"orientation"} \cup BoxKeys

\* the values an attribute is written with
Values(key) ==
    IF key = "orientation" THEN {Some("horizontal"), Some("vertical")}
    ELSE IF key \in BoxKeys THEN {Some(10), Some(20)}
    ELSE {None, Some(0), Some(7)}

\* this.isDirty(key)
IsDirty(key) == key \in dirty

\* this.get(key, fallback)
Get(key, fallback) == IF settings[key] # None THEN settings[key][1] ELSE fallback

\* the condition of Candlestick._beforeChanged with highY1 left out
WickDirtyButHighY1 ==
    \/ IsDirty("lowX0") \/ IsDirty("lowY0") \/ IsDirty("lowX1") \/ IsDirty("lowY1")
    \/ IsDirty("highX0") \/ IsDirty("highX1") \/ IsDirty("highY0")

\* the condition of Candlestick._beforeChanged
WickDirty ==
    \/ IsDirty("lowX0") \/ IsDirty("lowY0") \/ IsDirty("lowX1") \/ IsDirty("lowY1")
    \/ IsDirty("highX0") \/ IsDirty("highX1") \/ IsDirty("highY0") \/ IsDirty("highY1")

\* super._beforeChanged(): the rounded rectangle redraws on its own attributes
SuperBeforeChanged == \E key \in BoxKeys : IsDirty(key)

MoveTo(x, y) == [op |-> "moveTo", x |-> x, y |-> y]
LineTo(x, y) == [op |-> "lineTo", x |-> x, y |-> y]

\* super._draw(): the body of the rounded rectangle
SuperDraw == <<[op |-> "body", x |-> 0, y |-> 0]>>
\* Draw with the high wick drawn before the low one
DrawHighFirst ==
    SuperDraw \o
    <<MoveTo(Get("highX0", 0), Get("highY0", 0)),
      LineTo(Get("highX1", 0), Get("highY1", 0)),
      MoveTo(Get("lowX0", 0), Get("lowY0", 0)),
      LineTo(Get("lowX1", 0), Get("lowY1", 0))>>

\* Candlestick._draw: the path it leaves on a cleared display
Draw ==
    SuperDraw \o
    <<MoveTo(Get("lowX0", 0), Get("lowY0", 0)),
      LineTo(Get("lowX1", 0), Get("lowY1", 0)),
      MoveTo(Get("highX0", 0), Get("highY0", 0)),
      LineTo(Get("highX1", 0), Get("highY1", 0))>>

\* the shape after construction
CandleStart ==
    /\ settings = [key \in Keys |-> None]
    /\ dirty = {}
    /\ clear = FALSE
    /\ display = <<>>
    /\ phase = "idle"
    /\ sets = 0

\* this.set(key, v)
Set(key, v) ==
    /\ phase = "idle"
    /\ sets < MaxSets
    /\ settings[key] # v
    /\ settings' = [settings EXCEPT ![key] = v]
    /\ dirty' = dirty \cup {key}
    /\ sets' = sets + 1
    /\ UNCHANGED <<clear, display, phase>>
    /\ UNCHANGED mapVars

\* Candlestick._beforeChanged, run on a dirty shape
BeforeChanged ==
    /\ phase = "idle"
    /\ dirty # {}
    /\ clear' = (clear \/ SuperBeforeChanged \/ WickDirty)
    /\ phase' = "before"
    /\ UNCHANGED <<settings, dirty, display, sets>>
    /\ UNCHANGED mapVars

\* _changed: the draw pass, which clears the display and runs _draw when the
\* clear flag is set
Changed ==
    /\ phase = "before"
    /\ display' = IF clear THEN Draw ELSE display
    /\ phase' = "changed"
    /\ UNCHANGED <<settings, dirty, clear, sets>>
    /\ UNCHANGED mapVars

\* _afterChanged: the end of the change cycle
AfterChanged ==
    /\ phase = "changed"
    /\ clear' = FALSE
    /\ dirty' = {}
    /\ phase' = "idle"
    /\ UNCHANGED <<settings, display, sets>>
    /\ UNCHANGED mapVars

\* ---------------------------------------------------------------- inputs
SiblingTypes == {"MapLineSeries", "MapPolygonSeries"}
Ids == {"a"}

InitialGeometries ==
    {None, Some(Point(<<1, 2>>))}
    \cup {Some([type |-> "MultiPoint", coordinates |-> [k \in 1..n |-> <<2 * (k - 1), k - 1>>]]) : n \in (MaxCoords - 1)..MaxCoords}
    \cup {Some([type |-> "LineString", coordinates |-> <<<<0, 3>>>>])}

InitialDataItems ==
    [geometry : InitialGeometries,
     longitude : {None, Some(3)},
     latitude : {None, Some(0)},
     positionOnLine : {None, Some(500)},
     autoRotate : BOOLEAN,
     autoRotateAngle : {None},
     lineId : {None} \cup {Some(i) : i \in Ids},
     lineDataItem : {None},
     polygonId : {None} \cup {Some(i) : i \in Ids},
     polygonDataItem : {None}]

\* the entries of the sibling series of the type given
SiblingEntries(type) ==
    {[series |-> k, id |-> i] : k \in {j \in 1..Len(series) : series[j].type = type}, i \in Ids}

\* ---------------------------------------------------------------- actions
Init ==
    /\ chart = FALSE
    /\ series = <<>>
    /\ clipFront = FALSE
    /\ clipBack = TRUE
    /\ bulletFns = BulletFunctions
    /\ dataItem \in InitialDataItems
    /\ bullets = <<>>
    /\ geometries = <<>>
    /\ calls = <<>>
    /\ CandleStart

\* the series is pushed to a chart's series (it holds entries of its own
\* under the identifiers of Ids)
AttachChart ==
    /\ ~chart
    /\ geometries # <<>>
    /\ chart' = TRUE
    /\ series' = <<[type |-> "MapPointSeries", ids |-> Ids]>>
    /\ calls' = <<>>
    /\ UNCHANGED <<clipFront, clipBack, bulletFns, dataItem, bullets, geometries>>
    /\ UNCHANGED candleVars

\* a sibling series is pushed to the chart's series
AddSeries(type) ==
    /\ chart
    /\ geometries # <<>>
    /\ Len(series) < MaxSeries
    /\ series' = Append(series, [type |-> type, ids |-> Ids])
    /\ calls' = <<>>
    /\ UNCHANGED <<chart, clipFront, clipBack, bulletFns, dataItem, bullets, geometries>>
    /\ UNCHANGED candleVars

\* MapPointSeries.processDataItem, when the entry is ingested
ProcessDataItem ==
    /\ geometries = <<>>
    /\ LET geometry == IF dataItem.geometry = None
                       THEN Some(Point(<<IF dataItem.longitude # None THEN dataItem.longitude[1] ELSE 0,
                                         IF dataItem.latitude # None THEN dataItem.latitude[1] ELSE 0>>))
                       ELSE dataItem.geometry
       IN  /\ dataItem' = [dataItem EXCEPT !.geometry = geometry]
           /\ geometries' = Append(geometries, geometry[1])
    /\ calls' = <<>>
    /\ UNCHANGED <<chart, series, clipFront, clipBack, bulletFns, bullets>>
    /\ UNCHANGED candleVars
\* MakeBullets that adds the new markers to the ones the entry has
MakeBulletsAccumulating ==
    /\ geometries # <<>>
    /\ LET r == MakeBulletsEach(bullets, dataItem.geometry, bulletFns)
       IN  /\ bullets' = r.bullets
           /\ dataItem' = [dataItem EXCEPT !.geometry = r.geometry]
           /\ geometries' = IF r.geometry = None THEN geometries
                            ELSE [geometries EXCEPT ![Len(geometries)] = r.geometry[1]]
    /\ calls' = <<>>
    /\ UNCHANGED <<chart, series, clipFront, clipBack, bulletFns>>
    /\ UNCHANGED candleVars

\* MapPointSeries._makeBullets (the geometry it assigns the type of is the
\* object the store holds for the entry)
MakeBullets ==
    /\ geometries # <<>>
    /\ LET r == MakeBulletsEach(<<>>, dataItem.geometry, bulletFns)
       IN  /\ bullets' = r.bullets
           /\ dataItem' = [dataItem EXCEPT !.geometry = r.geometry]
           /\ geometries' = IF r.geometry = None THEN geometries
                            ELSE [geometries EXCEPT ![Len(geometries)] = r.geometry[1]]
    /\ calls' = <<>>
    /\ UNCHANGED <<chart, series, clipFront, clipBack, bulletFns>>
    /\ UNCHANGED candleVars

\* MapPointSeries._markDirtyValues(dataItem)
MarkDirtyValues ==
    /\ bullets # <<>>
    /\ LET r == PositionBullets(1, [dataItem |-> dataItem, bullets |-> bullets, calls |-> <<>>])
       IN  /\ dataItem' = r.dataItem
           /\ bullets' = r.bullets
           /\ calls' = r.calls
    /\ UNCHANGED <<chart, series, clipFront, clipBack, bulletFns, geometries>>
    /\ UNCHANGED candleVars

\* dataItem.set("lineId", v)
SetLineId(v) ==
    /\ geometries # <<>>
    /\ dataItem.lineId # v
    /\ dataItem' = [dataItem EXCEPT !.lineId = v]
    /\ calls' = <<>>
    /\ UNCHANGED <<chart, series, clipFront, clipBack, bulletFns, bullets, geometries>>
    /\ UNCHANGED candleVars

\* dataItem.set("polygonId", v)
SetPolygonId(v) ==
    /\ geometries # <<>>
    /\ dataItem.polygonId # v
    /\ dataItem' = [dataItem EXCEPT !.polygonId = v]
    /\ calls' = <<>>
    /\ UNCHANGED <<chart, series, clipFront, clipBack, bulletFns, bullets, geometries>>
    /\ UNCHANGED candleVars

\* dataItem.set("lineDataItem", v): a line entry of the chart, or undefined
SetLineDataItem(v) ==
    /\ geometries # <<>>
    /\ dataItem.lineDataItem # v
    /\ dataItem' = [dataItem EXCEPT !.lineDataItem = v]
    /\ calls' = <<>>
    /\ UNCHANGED <<chart, series, clipFront, clipBack, bulletFns, bullets, geometries>>
    /\ UNCHANGED candleVars

\* dataItem.set("polygonDataItem", v): a polygon entry of the chart, or undefined
SetPolygonDataItem(v) ==
    /\ geometries # <<>>
    /\ dataItem.polygonDataItem # v
    /\ dataItem' = [dataItem EXCEPT !.polygonDataItem = v]
    /\ calls' = <<>>
    /\ UNCHANGED <<chart, series, clipFront, clipBack, bulletFns, bullets, geometries>>
    /\ UNCHANGED candleVars

\* this.set("clipFront", v)
SetClipFront(v) ==
    /\ clipFront # v
    /\ clipFront' = v
    /\ calls' = <<>>
    /\ UNCHANGED <<chart, series, clipBack, bulletFns, dataItem, bullets, geometries>>
    /\ UNCHANGED candleVars

\* this.set("clipBack", v)
SetClipBack(v) ==
    /\ clipBack # v
    /\ clipBack' = v
    /\ calls' = <<>>
    /\ UNCHANGED <<chart, series, clipFront, bulletFns, dataItem, bullets, geometries>>
    /\ UNCHANGED candleVars

\* dataItem.set("geometry", undefined)
UnsetGeometry ==
    /\ geometries # <<>>
    /\ dataItem.geometry # None
    /\ dataItem' = [dataItem EXCEPT !.geometry = None]
    /\ calls' = <<>>
    /\ UNCHANGED <<chart, series, clipFront, clipBack, bulletFns, bullets, geometries>>
    /\ UNCHANGED candleVars

\* bullet.set("sprite", undefined) on the bullet at position b
UnsetSprite(b) ==
    /\ b <= Len(bullets)
    /\ bullets[b].sprite # None
    /\ bullets' = [bullets EXCEPT ![b].sprite = None]
    /\ calls' = <<>>
    /\ UNCHANGED <<chart, series, clipFront, clipBack, bulletFns, dataItem, geometries>>
    /\ UNCHANGED candleVars

\* the series is taken out of its chart: this.chart is undefined again
DetachChart ==
    /\ chart
    /\ chart' = FALSE
    /\ series' = <<>>
    /\ calls' = <<>>
    /\ UNCHANGED <<clipFront, clipBack, bulletFns, dataItem, bullets, geometries>>
    /\ UNCHANGED candleVars
\* this.bullets.push(bulletFunction): one more bullet factory
PushBullet ==
    /\ bulletFns < BulletFunctions
    /\ bulletFns' = bulletFns + 1
    /\ calls' = <<>>
    /\ UNCHANGED <<chart, series, clipFront, clipBack, dataItem, bullets, geometries>>
    /\ UNCHANGED candleVars

Next ==
    \/ AttachChart
    \/ \E type \in SiblingTypes : AddSeries(type)
    \/ ProcessDataItem
    \/ MakeBullets
    \/ MarkDirtyValues
    \/ \E v \in {None} \cup {Some(i) : i \in Ids} : SetLineId(v)
    \/ \E v \in {None} \cup {Some(i) : i \in Ids} : SetPolygonId(v)
    \/ \E v \in {None} \cup {Some(e) : e \in SiblingEntries("MapLineSeries")} : SetLineDataItem(v)
    \/ \E v \in {None} \cup {Some(e) : e \in SiblingEntries("MapPolygonSeries")} : SetPolygonDataItem(v)

Spec == Init /\ [][Next]_vars


\* ------------------------------------------------------------------ claims
\* the sprite of the bullet at position b
Sprite(b) == bullets[b].sprite[1]

\* the marker at position b sits at the projection of position c (the
\* projection having a result there)
PlacedAt(b, c) ==
    /\ Sprite(b).x = Some(Projection(c)[1][1])
    /\ Sprite(b).y = Some(Projection(c)[1][2])

\* the call on the bullet at position b handed position c, and nothing else,
\* to the final placement step, and the marker sits at its projection (the
\* series being in a chart and the projection having a result at c: the cases
\* without are C14's and C15's)
PlacedBy(b, c) ==
    /\ Len(calls[b].real) = 1
    /\ calls[b].real[1].coordinates = c
    /\ (chart /\ Projection(c) # None) => PlacedAt(b, c)

\* C1: after a _positionBullet call on a marker of an entry attached to a
\* polygon (polygonDataItem set before the call or resolved from polygonId by
\* it), the marker sits at the projection of that polygon's visualCentroid(),
\* whatever the entry's longitude/latitude, line, positionOnLine and geometry
\* are.
C1_PolygonCentroid ==
    \A b \in 1..Len(calls) :
        (calls[b].sprite /\ dataItem.polygonDataItem # None)
            => /\ calls[b].branch = "polygon"
               /\ PlacedBy(b, VisualCentroid(dataItem.polygonDataItem[1]))

C1_Witness ==
    /\ calls # <<>>
    /\ dataItem.polygonDataItem # None
    /\ dataItem.lineDataItem # None
    /\ dataItem.positionOnLine # None
    /\ dataItem.longitude # None
    /\ dataItem.latitude # None
    /\ dataItem.geometry[1].type = "MultiPoint"
    /\ PlacedAt(1, VisualCentroid(dataItem.polygonDataItem[1]))
    /\ VisualCentroid(dataItem.polygonDataItem[1]) # <<dataItem.longitude[1], dataItem.latitude[1]>>

Resolvable(type, id) ==
    /\ id # None
    /\ chart
    /\ \E k \in 1..Len(series) : series[k].type = type /\ id[1] \in series[k].ids

\* C3: after a _positionBullet call on a marker of an entry with numeric
\* longitude and latitude and no line or polygon attachment (no reference and
\* no resolvable identifier), the marker sits at projection([longitude,
\* latitude]) and the stored geometry was not consulted, whether it is a Point
\* or a MultiPoint.
C3_LongitudeLatitude ==
    \A b \in 1..Len(calls) :
        (/\ calls[b].sprite
         /\ dataItem.longitude # None
         /\ dataItem.latitude # None
         /\ dataItem.lineDataItem = None
         /\ dataItem.polygonDataItem = None
         /\ ~Resolvable("MapLineSeries", dataItem.lineId)
         /\ ~Resolvable("MapPolygonSeries", dataItem.polygonId))
            => /\ calls[b].branch = "lonlat"
               /\ calls[b].real[1].geometry = Point(<<dataItem.longitude[1], dataItem.latitude[1]>>)
               /\ PlacedBy(b, <<dataItem.longitude[1], dataItem.latitude[1]>>)

C3_Witness ==
    /\ calls # <<>>
    /\ dataItem.longitude # None
    /\ dataItem.latitude # None
    /\ dataItem.lineDataItem = None
    /\ dataItem.polygonDataItem = None
    /\ dataItem.geometry[1].type = "MultiPoint"
    /\ Len(dataItem.geometry[1].coordinates) = 2
    /\ Len(bullets) = 4
    /\ \A b \in 1..4 : PlacedAt(b, <<dataItem.longitude[1], dataItem.latitude[1]>>)
    /\ dataItem.geometry[1].coordinates[1] # <<dataItem.longitude[1], dataItem.latitude[1]>>


\* C4: two _positionBullet calls in a row on a marker, nothing else changing
\* in between, leave the marker's x, y, visibility and rotation after the
\* second as after the first: from every state (the first call may be the one
\* that resolves and caches lineId / polygonId), and again right after a
\* placement pass.
C4_Idempotent ==
    \A b \in 1..Len(bullets) :
        LET first == PositionBullet(dataItem, bullets[b])
            second == PositionBullet(first.dataItem, first.bullet)
        IN  /\ second.bullet.sprite = first.bullet.sprite
            /\ calls # <<>> => first.bullet.sprite = bullets[b].sprite

C4_Witness ==
    /\ calls # <<>>
    /\ calls[1].lineDataItem = None
    /\ calls[1].lineWrites > 0
    /\ calls[1].branch = "line"
    /\ dataItem.autoRotate
    /\ Sprite(1).x # None
    /\ Sprite(1).rotation # None
    /\ PositionBullet(dataItem, bullets[1]).bullet = bullets[1]

\* C5: a _positionBullet call that finds the entry's lineDataItem (resp.
\* polygonDataItem) set - by an earlier call's resolution or otherwise - visits
\* no series of chart.series for that reference, goes on with the reference it
\* found and leaves it in place, whatever the identifier and the sibling
\* series are by then.
C5_CachedReference ==
    \A b \in 1..Len(calls) :
        /\ calls[b].lineDataItem # None
            => /\ calls[b].lineVisited = 0
               /\ calls[b].line = calls[b].lineDataItem
               /\ dataItem.lineDataItem = calls[b].lineDataItem
        /\ calls[b].polygonDataItem # None
            => /\ calls[b].polygonVisited = 0
               /\ calls[b].polygon = calls[b].polygonDataItem
               /\ dataItem.polygonDataItem = calls[b].polygonDataItem

\* a call reuses the line entry of the series at position 2 although the
\* identifier is now found in the series at position 3 as well
C5_Witness ==
    /\ calls # <<>>
    /\ calls[1].lineDataItem = Some([series |-> 2, id |-> "a"])
    /\ Len(series) = 3
    /\ series[3].type = "MapLineSeries"
    /\ dataItem.lineId = Some("a")
    /\ calls[1].lineVisited = 0
    /\ calls[1].branch = "line"


\* the entry a scan of chart.series in insertion order meets first for the
\* identifier, among the series of the type given
FirstEntry(type, id) ==
    LET k == CHOOSE j \in 1..Len(series) :
                 /\ series[j].type = type /\ id \in series[j].ids
                 /\ \A i \in 1..(j - 1) : ~(series[i].type = type /\ id \in series[i].ids)
    IN  [series |-> k, id |-> id]

\* the numbers of lineDataItem and of polygonDataItem writes the resolver made
\* in the calls of the last step, from call b on
RECURSIVE LineWrites(_)
LineWrites(b) == IF b > Len(calls) THEN 0 ELSE calls[b].lineWrites + LineWrites(b + 1)

RECURSIVE PolygonWrites(_)
PolygonWrites(b) == IF b > Len(calls) THEN 0 ELSE calls[b].polygonWrites + PolygonWrites(b + 1)

\* C9: when a _positionBullet call resolves lineId (resp. polygonId) by
\* scanning chart.series, the entry it caches and places by is the one of the
\* first series, in insertion order, of the target type that has the
\* identifier.
C9_FirstSeriesWins ==
    \A b \in 1..Len(calls) :
        /\ (calls[b].lineDataItem = None /\ calls[b].line # None)
            => /\ calls[b].line = Some(FirstEntry("MapLineSeries", calls[b].line[1].id))
               /\ dataItem.lineDataItem = calls[b].line
        /\ (calls[b].polygonDataItem = None /\ calls[b].polygon # None)
            => /\ calls[b].polygon = Some(FirstEntry("MapPolygonSeries", calls[b].polygon[1].id))
               /\ dataItem.polygonDataItem = calls[b].polygon

\* C10: the calls of a placement step write the entry's lineDataItem (resp.
\* polygonDataItem) at most once when the step finds it unset, and not at all
\* when it finds it set.
C10_WriteOnce ==
    calls # <<>>
        => /\ LineWrites(1) <= (IF calls[1].lineDataItem = None THEN 1 ELSE 0)
           /\ PolygonWrites(1) <= (IF calls[1].polygonDataItem = None THEN 1 ELSE 0)


\* the entry's bullets are those _makeBullets binds for its geometry: per
\* bullet factory one marker without index for a Point, and for a MultiPoint
\* of N coordinates N markers with the indices 0..N-1 in order
BoundToGeometry ==
    LET geometry == dataItem.geometry[1]
        n == IF geometry.type = "Point" THEN 1 ELSE Len(geometry.coordinates)
    IN  /\ geometry.type \in {"Point", "MultiPoint"}
        /\ Len(bullets) = n * bulletFns
        /\ \A f \in 0..(bulletFns - 1) : \A k \in 0..(n - 1) :
               bullets[f * n + k + 1].index = (IF geometry.type = "Point" THEN None ELSE Some(k))

\* the call on the bullet at position b placed the marker by the stored
\* geometry: a MultiPoint's marker by the coordinate of its index
PlacedByGeometry(b) ==
    LET geometry == dataItem.geometry[1]
    IN  IF geometry.type = "Point"
        THEN PlacedBy(b, geometry.coordinates[1])
        ELSE PlacedBy(b, geometry.coordinates[bullets[b].index[1] + 1])

\* the fallback order has come down to the stored geometry
GeometryDecides ==
    /\ dataItem.polygonDataItem = None
    /\ dataItem.lineDataItem = None \/ dataItem.positionOnLine = None
    /\ dataItem.longitude = None \/ dataItem.latitude = None

\* C6 as claimed: every _positionBullet call on a marker of a MultiPoint entry
\* (of a series in a chart) puts the marker at the projection of
\* geometry.coordinates[its index].
C6_PlacedAtOwnCoordinate ==
    \A b \in 1..Len(calls) :
        (calls[b].sprite /\ chart /\ dataItem.geometry[1].type = "MultiPoint") => PlacedByGeometry(b)

\* C6, amended: a _makeBullets call leaves the entry with exactly N markers
\* per bullet factory for a MultiPoint of N coordinates (one for a Point), the
\* k-th of each factory with index k; and a _positionBullet call puts a marker
\* at the projection of geometry.coordinates[its index] when the entry has no
\* polygon, no line with a numeric positionOnLine, and not both longitude and
\* latitude.
C6_MultiPointCardinality ==
    /\ [][MakeBullets => BoundToGeometry']_vars
    /\ [](\A b \in 1..Len(calls) : (calls[b].sprite /\ GeometryDecides) => PlacedByGeometry(b))

C6_Witness ==
    /\ calls # <<>>
    /\ GeometryDecides
    /\ dataItem.geometry[1].type = "MultiPoint"
    /\ Len(dataItem.geometry[1].coordinates) = 2
    /\ dataItem.geometry[1].coordinates[1] # dataItem.geometry[1].coordinates[2]
    /\ BoundToGeometry
    /\ Len(bullets) = 4
    /\ PlacedAt(1, dataItem.geometry[1].coordinates[1])
    /\ PlacedAt(2, dataItem.geometry[1].coordinates[2])
    /\ PlacedAt(3, dataItem.geometry[1].coordinates[1])
    /\ PlacedAt(4, dataItem.geometry[1].coordinates[2])


\* the series with its clipping settings changing: entries without autoRotate,
\* with a positionOnLine, of the geometries below
ClipGeometries ==
    {None, Some(Point(<<1, 2>>)),
     Some([type |-> "MultiPoint", coordinates |-> [k \in 1..MaxCoords |-> <<2 * (k - 1), k - 1>>]])}

ClipInit ==
    /\ Init
    /\ ~dataItem.autoRotate
    /\ dataItem.positionOnLine # None
    /\ dataItem.geometry \in ClipGeometries

ClipNext ==
    \/ Next
    \/ \E v \in BOOLEAN : SetClipFront(v)
    \/ \E v \in BOOLEAN : SetClipBack(v)

ClipSpec == ClipInit /\ [][ClipNext]_vars

\* C7: after the final placement step the marker's visibility is false when
\* the clip predicate has the point inside the renderable path and clipFront
\* is set, false when it has it outside and clipBack is set, and true in every
\* other case; so clipBack does not matter inside and clipFront not outside.
C7_Clipping ==
    \A b \in 1..Len(calls) :
        (chart /\ calls[b].real # <<>>)
            => LET inside == GeoPath(calls[b].real[1].geometry)
               IN  /\ (inside /\ clipFront) => Sprite(b).visible = Some(FALSE)
                   /\ (~inside /\ clipBack) => Sprite(b).visible = Some(FALSE)
                   /\ (inside /\ ~clipFront) => Sprite(b).visible = Some(TRUE)
                   /\ (~inside /\ ~clipBack) => Sprite(b).visible = Some(TRUE)

\* a marker inside the path shown although clipBack is set, beside one outside
\* that is hidden
C7_Witness ==
    /\ Len(calls) >= 2
    /\ chart
    /\ clipBack
    /\ ~clipFront
    /\ calls[1].real # <<>>
    /\ calls[2].real # <<>>
    /\ GeoPath(calls[1].real[1].geometry)
    /\ ~GeoPath(calls[2].real[1].geometry)
    /\ Sprite(1).visible = Some(TRUE)
    /\ Sprite(2).visible = Some(FALSE)


\* the Candlestick alone, beside an idle series
CandleInit ==
    /\ Init
    /\ dataItem.geometry = None /\ dataItem.longitude = None /\ dataItem.latitude = None
    /\ dataItem.positionOnLine = None /\ ~dataItem.autoRotate
    /\ dataItem.lineId = None /\ dataItem.polygonId = None

CandleNext ==
    \/ \E key \in Keys : \E v \in Values(key) : Set(key, v)
    \/ BeforeChanged
    \/ Changed
    \/ AfterChanged

CandleSpec == CandleInit /\ [][CandleNext]_vars

\* C8: when _beforeChanged runs with any of the eight wick coordinates dirty,
\* the clear flag is set, and the draw pass that follows clears the path and
\* draws it anew from the current attributes; with no wick coordinate (and no
\* attribute of the inherited box) dirty - orientation alone, say - the flag
\* stays unset.
C8_RedrawOnDirty ==
    /\ (phase \in {"before", "changed"} /\ dirty \cap WickKeys # {}) => clear
    /\ (phase = "changed" /\ dirty \cap WickKeys # {}) => display = Draw
    /\ (phase \in {"before", "changed"} /\ dirty \cap (WickKeys \cup BoxKeys) = {}) => ~clear

\* a shape drawn before gets highY1 written and is redrawn
C8_Witness ==
    /\ phase = "changed"
    /\ dirty = {"highY1"}
    /\ settings["highY1"] = Some(7)
    /\ settings["lowX0"] = Some(7)
    /\ clear
    /\ display = SuperDraw \o <<MoveTo(7, 0), LineTo(0, 0), MoveTo(0, 0), LineTo(0, 7)>>

\* C11: a scan for lineId only ever yields an entry of a series of type
\* MapLineSeries, one for polygonId only an entry of a MapPolygonSeries; when
\* the identifier is held by series of other types only, the call resolves
\* nothing, writes no reference, leaves the entry's reference unset and does
\* not take the branch of that reference in the fallback order.
C11_TypeFiltering ==
    \A b \in 1..Len(calls) :
        /\ (calls[b].lineDataItem = None /\ calls[b].line # None)
            => series[calls[b].line[1].series].type = "MapLineSeries"
        /\ (calls[b].polygonDataItem = None /\ calls[b].polygon # None)
            => series[calls[b].polygon[1].series].type = "MapPolygonSeries"
        /\ (/\ calls[b].sprite
            /\ calls[b].lineDataItem = None
            /\ ~Resolvable("MapLineSeries", dataItem.lineId))
            => /\ calls[b].line = None
               /\ calls[b].lineWrites = 0
               /\ dataItem.lineDataItem = None
               /\ calls[b].branch # "line"
        /\ (/\ calls[b].sprite
            /\ calls[b].polygonDataItem = None
            /\ ~Resolvable("MapPolygonSeries", dataItem.polygonId))
            => /\ calls[b].polygon = None
               /\ calls[b].polygonWrites = 0
               /\ dataItem.polygonDataItem = None
               /\ calls[b].branch # "polygon"

\* a lineId held by the MapPointSeries itself and by a MapPolygonSeries, and by
\* no MapLineSeries: every series was visited, nothing resolved, and the marker
\* went by longitude / latitude
C11_Witness ==
    /\ calls # <<>>
    /\ dataItem.lineId = Some("a")
    /\ dataItem.polygonId = None
    /\ dataItem.positionOnLine # None
    /\ Len(series) = 3
    /\ \A k \in 1..3 : series[k].type # "MapLineSeries" /\ "a" \in series[k].ids
    /\ calls[1].lineVisited = 3
    /\ calls[1].line = None
    /\ dataItem.lineDataItem = None
    /\ calls[1].branch = "lonlat"
    /\ PlacedAt(1, <<dataItem.longitude[1], dataItem.latitude[1]>>)

\* C13: the placement call that resolves polygonId (resp. lineId) itself -
\* the entry's reference being unset when the call starts - already hands the
\* final placement step the coordinate of the polygon (resp. line) it
\* resolved, and the marker sits there after this very call; the line with the
\* entry having no polygon and a numeric positionOnLine.
C13_ResolvedInSameCall ==
    \A b \in 1..Len(calls) :
        /\ (/\ calls[b].sprite
            /\ calls[b].polygonDataItem = None
            /\ Resolvable("MapPolygonSeries", dataItem.polygonId))
            => /\ calls[b].polygon # None
               /\ calls[b].branch = "polygon"
               /\ PlacedBy(b, VisualCentroid(calls[b].polygon[1]))
        /\ (/\ calls[b].sprite
            /\ calls[b].lineDataItem = None
            /\ Resolvable("MapLineSeries", dataItem.lineId)
            /\ dataItem.polygonDataItem = None
            /\ dataItem.positionOnLine # None)
            => /\ calls[b].line # None
               /\ calls[b].branch = "line"
               /\ PlacedBy(b, PositionToGeoPoint(calls[b].line[1], dataItem.positionOnLine[1]))

\* the first call of a pass resolved polygonId and put its marker at the
\* centroid, away from the longitude / latitude the entry has as well
C13_Witness ==
    /\ calls # <<>>
    /\ calls[1].polygonDataItem = None
    /\ calls[1].polygonWrites = 1
    /\ calls[1].polygon # None
    /\ dataItem.longitude # None
    /\ dataItem.latitude # None
    /\ VisualCentroid(calls[1].polygon[1]) # <<dataItem.longitude[1], dataItem.latitude[1]>>
    /\ PlacedAt(1, VisualCentroid(calls[1].polygon[1]))

\* the entry keeps its lineId for good and its references are written by the
\* resolver alone, while the chart and its series come into being
ResolveInit ==
    /\ Init
    /\ dataItem.lineId # None

ResolveNext ==
    \/ AttachChart
    \/ \E type \in SiblingTypes : AddSeries(type)
    \/ ProcessDataItem
    \/ MakeBullets
    \/ MarkDirtyValues

ResolveSpec == ResolveInit /\ [][ResolveNext]_vars

\* C12: a placement call that resolves nothing for an identifier leaves the
\* entry's reference unset (nothing stands for "looked up and not found"); and
\* a placement call made with the reference unset and a series of the right
\* type holding the identifier - whatever calls failed before - caches the
\* entry found and places the marker by it (by the line when the entry has no
\* polygon and a numeric positionOnLine).
C12_LevelTriggered ==
    \A b \in 1..Len(calls) :
        calls[b].sprite =>
            /\ (calls[b].lineDataItem = None /\ calls[b].line = None) => dataItem.lineDataItem = None
            /\ (calls[b].polygonDataItem = None /\ calls[b].polygon = None) => dataItem.polygonDataItem = None
            /\ (calls[b].polygonDataItem = None /\ Resolvable("MapPolygonSeries", dataItem.polygonId))
                => /\ dataItem.polygonDataItem # None
                   /\ dataItem.polygonDataItem[1].id = dataItem.polygonId[1]
                   /\ series[dataItem.polygonDataItem[1].series].type = "MapPolygonSeries"
                   /\ PlacedBy(b, VisualCentroid(dataItem.polygonDataItem[1]))
            /\ (calls[b].lineDataItem = None /\ Resolvable("MapLineSeries", dataItem.lineId))
                => /\ dataItem.lineDataItem # None
                   /\ dataItem.lineDataItem[1].id = dataItem.lineId[1]
                   /\ series[dataItem.lineDataItem[1].series].type = "MapLineSeries"
                   /\ (dataItem.polygonDataItem = None /\ dataItem.positionOnLine # None)
                        => PlacedBy(b, PositionToGeoPoint(dataItem.lineDataItem[1], dataItem.positionOnLine[1]))

\* the marker still sits where an earlier call, which could not resolve the
\* lineId, put it by longitude / latitude; the call just made found the line
\* of the series pushed since, cached it and turned the marker along it (the
\* line's point has no projection, so x and y tell of the earlier call)
C12_Witness ==
    /\ calls # <<>>
    /\ calls[1].lineDataItem = None
    /\ calls[1].lineWrites = 1
    /\ calls[1].branch = "line"
    /\ dataItem.lineDataItem = Some([series |-> 3, id |-> "a"])
    /\ dataItem.autoRotate
    /\ dataItem.longitude # None
    /\ dataItem.latitude # None
    /\ Projection(calls[1].real[1].coordinates) = None
    /\ PlacedAt(1, <<dataItem.longitude[1], dataItem.latitude[1]>>)
    /\ Sprite(1).rotation = Some(GetAngle(Convert(PositionToGeoPoint(dataItem.lineDataItem[1], 498)),
                                          Convert(PositionToGeoPoint(dataItem.lineDataItem[1], 502))))

\* C14: a placement call whose final placement step gets a coordinate the
\* projection has no result for leaves the marker's x and y as they were
\* before the call (the steps that leave calls behind are the placement
\* passes).
C14_NoProjection ==
    [][calls' # <<>> =>
        \A b \in 1..Len(bullets) :
            (/\ chart
             /\ calls'[b].real # <<>>
             /\ Projection(calls'[b].real[1].coordinates) = None)
                => /\ bullets'[b].sprite[1].x = bullets[b].sprite[1].x
                   /\ bullets'[b].sprite[1].y = bullets[b].sprite[1].y]_vars

\* a marker placed before, then sent by its line to a point without
\* projection: it is where it was, with the visibility of the new point
C14_Witness ==
    /\ calls # <<>>
    /\ chart
    /\ calls[1].real # <<>>
    /\ Projection(calls[1].real[1].coordinates) = None
    /\ Sprite(1).x # None
    /\ Sprite(1).y # None
    /\ Sprite(1).visible = Some(Visible(GeoPath(calls[1].real[1].geometry)))

\* the series with its inputs falling away: the geometry unset, a marker
\* losing its sprite, the series taken out of its chart. The entries rotate
\* their markers, have no identifiers, and may be put on a line
DegradeInit ==
    /\ Init
    /\ dataItem.lineId = None
    /\ dataItem.polygonId = None
    /\ dataItem.autoRotate
    /\ dataItem.geometry \in ClipGeometries

DegradeNext ==
    \/ AttachChart
    \/ AddSeries("MapLineSeries")
    \/ ProcessDataItem
    \/ MakeBullets
    \/ MarkDirtyValues
    \/ \E v \in {None} \cup {Some(e) : e \in SiblingEntries("MapLineSeries")} : SetLineDataItem(v)
    \/ UnsetGeometry
    \/ \E b \in 1..SpritelessBullets : UnsetSprite(b)
    \/ DetachChart

DegradeSpec == DegradeInit /\ [][DegradeNext]_vars

\* the entry has nothing to place a marker by
NoPlacementInput ==
    /\ dataItem.polygonDataItem = None
    /\ dataItem.lineDataItem = None \/ dataItem.positionOnLine = None
    /\ dataItem.longitude = None \/ dataItem.latitude = None
    /\ dataItem.geometry = None

\* C15: a placement call leaves the marker as it was - sprite, x, y,
\* visibility and rotation - when the marker has no sprite, or the series is
\* in no chart, or the entry has no polygon, no line with a numeric
\* positionOnLine, not both longitude and latitude, and no geometry.
C15_GracefulDegradation ==
    [][MarkDirtyValues =>
        \A b \in 1..Len(bullets) :
            (bullets[b].sprite = None \/ ~chart \/ NoPlacementInput') => bullets'[b] = bullets[b]]_vars

\* after a pass over an entry on a line without positionOnLine whose geometry
\* was unset: the first marker has no sprite, the second was not handed to the
\* final placement step and is where an earlier pass put and turned it
C15_Witness ==
    /\ Len(calls) >= 2
    /\ chart
    /\ NoPlacementInput
    /\ dataItem.lineDataItem # None
    /\ bullets[1].sprite = None
    /\ ~calls[1].sprite
    /\ calls[2].sprite
    /\ calls[2].real = <<>>
    /\ Sprite(2).x # None
    /\ Sprite(2).visible # None
    /\ Sprite(2).rotation # None

\* C16: processDataItem gives an entry without geometry the Point at
\* [longitude or 0, latitude or 0] and leaves a geometry that is there as it
\* is, and adds the entry's geometry to the store once; after that neither
\* _makeBullets nor a placement pass changes the entry's geometry, type or
\* coordinates.
C16_GeometryStable ==
    /\ [][ProcessDataItem =>
            /\ dataItem.geometry # None => dataItem'.geometry = dataItem.geometry
            /\ dataItem.geometry = None =>
                   dataItem'.geometry =
                       Some(Point(<<IF dataItem.longitude # None THEN dataItem.longitude[1] ELSE 0,
                                    IF dataItem.latitude # None THEN dataItem.latitude[1] ELSE 0>>))
            /\ geometries' = Append(geometries, dataItem'.geometry[1])]_vars
    /\ [][(MakeBullets \/ MarkDirtyValues) => dataItem'.geometry = dataItem.geometry]_vars

\* the number of positions the entry's geometry has: one for a Point, the
\* number of entries of coordinates otherwise
GeometryCardinality ==
    IF dataItem.geometry = None THEN 0
    ELSE IF dataItem.geometry[1].type = "Point" THEN 1
    ELSE Len(dataItem.geometry[1].coordinates)

\* C17: a _makeBullets call leaves the entry with (cardinality of its
\* geometry) x (number of bullet factories) markers however many it had
\* before; a placement pass (a step that leaves calls behind) leaves the
\* number of markers and their indices as they were; so once markers are
\* bound their number is that product, through all re-bindings and placement
\* passes.
C17_RebindReplaces ==
    /\ [][MakeBullets => Len(bullets') = GeometryCardinality' * bulletFns]_vars
    /\ [][calls' # <<>> =>
            /\ Len(bullets') = Len(bullets)
            /\ \A b \in 1..Len(bullets) : bullets'[b].index = bullets[b].index]_vars
    /\ [](bullets # <<>> => Len(bullets) = GeometryCardinality * bulletFns)

\* markers bound anew after a placement pass: the entry has the rotation angle
\* only a pass over bound markers writes, and its markers are untouched ones,
\* two per bullet factory for its two coordinates
C17_Witness ==
    /\ calls = <<>>
    /\ dataItem.autoRotateAngle # None
    /\ dataItem.geometry[1].type = "MultiPoint"
    /\ Len(dataItem.geometry[1].coordinates) = 2
    /\ Len(bullets) = 4
    /\ \A b \in 1..4 : bullets[b].sprite = Some(NewSprite)

\* the series with every branch of the fallback order in reach, and the case
\* of none: entries without identifiers that rotate their markers, put on
\* lines and polygons directly, whose geometry can be unset
PlaceInit ==
    /\ Init
    /\ dataItem.lineId = None
    /\ dataItem.polygonId = None
    /\ dataItem.autoRotate
    /\ dataItem.geometry \in ClipGeometries

PlaceNext ==
    \/ AttachChart
    \/ \E type \in SiblingTypes : AddSeries(type)
    \/ ProcessDataItem
    \/ MakeBullets
    \/ MarkDirtyValues
    \/ \E v \in {None} \cup {Some(e) : e \in SiblingEntries("MapLineSeries")} : SetLineDataItem(v)
    \/ \E v \in {None} \cup {Some(e) : e \in SiblingEntries("MapPolygonSeries")} : SetPolygonDataItem(v)
    \/ UnsetGeometry

PlaceSpec == PlaceInit /\ [][PlaceNext]_vars

\* the call on the bullet at position b had a coordinate to place its marker
\* by: one of the four branches of the fallback order supplied it
CoordinateFound(b) ==
    /\ calls[b].sprite
    /\ \/ dataItem.polygonDataItem # None
       \/ dataItem.lineDataItem # None /\ dataItem.positionOnLine # None
       \/ dataItem.longitude # None /\ dataItem.latitude # None
       \/ /\ dataItem.geometry # None
          /\ \/ dataItem.geometry[1].type = "Point"
             \/ /\ dataItem.geometry[1].type = "MultiPoint"
                /\ (IF bullets[b].index # None THEN bullets[b].index[1] ELSE 0)
                       < Len(dataItem.geometry[1].coordinates)

\* C18: a _positionBullet call runs the final placement step once when one of
\* the four branches supplies a coordinate and never otherwise; and a bound
\* marker's sprite (x, y, visibility, rotation) changes only in a placement
\* call that ran the final placement step on it.
C18_SingleFinalPlacement ==
    /\ [](\A b \in 1..Len(calls) : Len(calls[b].real) = (IF CoordinateFound(b) THEN 1 ELSE 0))
    /\ [][\A b \in 1..Len(bullets) :
              (b <= Len(bullets') /\ bullets'[b].sprite # bullets[b].sprite)
                  => \/ MakeBullets
                     \/ MarkDirtyValues /\ calls'[b].real # <<>>]_vars

\* a pass over the markers of a Point entry with nothing else to go by: each
\* went through the final placement step once, from the Point branch
C18_Witness ==
    /\ Len(calls) >= 2
    /\ chart
    /\ calls[1].branch = "point"
    /\ Len(calls[1].real) = 1
    /\ Len(calls[2].real) = 1
    /\ calls[1].real[1].geometry = dataItem.geometry[1]
    /\ PlacedAt(1, PointCoordinates(dataItem.geometry[1]))
    /\ Sprite(1).visible # None
    /\ Sprite(1).rotation = Some(0)

\* the series from its construction, when this.bullets is still empty, with
\* bullet factories pushed one by one and markers bound in between (entries
\* without identifiers)
BindInit ==
    /\ chart = FALSE
    /\ series = <<>>
    /\ clipFront = FALSE
    /\ clipBack = TRUE
    /\ bulletFns = 0
    /\ dataItem \in InitialDataItems
    /\ dataItem.lineId = None
    /\ dataItem.polygonId = None
    /\ bullets = <<>>
    /\ geometries = <<>>
    /\ calls = <<>>
    /\ CandleStart

BindNext ==
    \/ PushBullet
    \/ AttachChart
    \/ ProcessDataItem
    \/ MakeBullets
    \/ MarkDirtyValues

BindSpec == BindInit /\ [][BindNext]_vars

\* the markers of list are one per entry of coordinates and bullet factory,
\* with the indices 0, 1, 2, ... within each factory
BoundPerCoordinate(list, coordinates) ==
    LET n == Len(coordinates)
    IN  /\ Len(list) = n * bulletFns
        /\ \A f \in 0..(bulletFns - 1) : \A k \in 0..(n - 1) : list[f * n + k + 1].index = Some(k)

\* the entry is processed and its geometry is there and is not a Point
NonPointGeometry ==
    /\ geometries # <<>>
    /\ dataItem.geometry # None
    /\ dataItem.geometry[1].type # "Point"

\* C19 as claimed: a _makeBullets call on an entry whose geometry is there and
\* is not a Point binds one marker per entry of coordinates and bullet factory,
\* indices from 0, and leaves the geometry's type "MultiPoint" (stated of the
\* call made in the state at hand, which with no bullet factory leaves every
\* variable as it is).
C19_AlwaysMultiPoint ==
    NonPointGeometry =>
        LET r == MakeBulletsEach(<<>>, dataItem.geometry, bulletFns)
        IN  /\ BoundPerCoordinate(r.bullets, dataItem.geometry[1].coordinates)
            /\ r.geometry[1].type = "MultiPoint"

\* C19, amended: such a call binds one marker per entry of coordinates and
\* bullet factory, indices from 0, and leaves the coordinates as they were;
\* with at least one bullet factory the geometry's type is "MultiPoint" after
\* it, with none the geometry is as it was.
C19_MultiPointWithFactories ==
    NonPointGeometry =>
        LET r == MakeBulletsEach(<<>>, dataItem.geometry, bulletFns)
        IN  /\ BoundPerCoordinate(r.bullets, dataItem.geometry[1].coordinates)
            /\ r.geometry[1].coordinates = dataItem.geometry[1].coordinates
            /\ bulletFns > 0 => r.geometry[1].type = "MultiPoint"
            /\ bulletFns = 0 => r.geometry = dataItem.geometry

\* markers bound by two bullet factories for a geometry that came as a
\* LineString and is a MultiPoint now in the entry and in the store
C19_Witness ==
    /\ bulletFns = 2
    /\ dataItem.geometry = Some([type |-> "MultiPoint", coordinates |-> <<<<0, 3>>>>])
    /\ geometries = <<dataItem.geometry[1]>>
    /\ Len(bullets) = 2
    /\ BoundPerCoordinate(bullets, dataItem.geometry[1].coordinates)

\* the value of a wick coordinate as drawn: 0 when it is not set
Drawn(key) == IF settings[key] = None THEN 0 ELSE settings[key][1]

\* C20: the path a _draw leaves is the inherited body followed by exactly four
\* operations, in this order: moveTo(lowX0, lowY0), lineTo(lowX1, lowY1),
\* moveTo(highX0, highY0), lineTo(highX1, highY1), each coordinate that is not
\* set taken as 0.
C20_DrawOrder ==
    (phase = "changed" /\ clear)
        => /\ Len(display) = Len(SuperDraw) + 4
           /\ SubSeq(display, 1, Len(SuperDraw)) = SuperDraw
           /\ display[Len(SuperDraw) + 1] = [op |-> "moveTo", x |-> Drawn("lowX0"), y |-> Drawn("lowY0")]
           /\ display[Len(SuperDraw) + 2] = [op |-> "lineTo", x |-> Drawn("lowX1"), y |-> Drawn("lowY1")]
           /\ display[Len(SuperDraw) + 3] = [op |-> "moveTo", x |-> Drawn("highX0"), y |-> Drawn("highY0")]
           /\ display[Len(SuperDraw) + 4] = [op |-> "lineTo", x |-> Drawn("highX1"), y |-> Drawn("highY1")]

\* a shape drawn with lowY1 and highX0 set and the other six coordinates
\* unset: the high wick is a segment of length zero at (7, 0)
C20_Witness ==
    /\ phase = "changed"
    /\ clear
    /\ settings["lowY1"] = Some(7)
    /\ settings["highX0"] = Some(7)
    /\ settings["highX1"] = Some(7)
    /\ \A key \in WickKeys \ {"lowY1", "highX0", "highX1"} : settings[key] = None
    /\ display = <<[op |-> "body", x |-> 0, y |-> 0],
                   [op |-> "moveTo", x |-> 0, y |-> 0], [op |-> "lineTo", x |-> 0, y |-> 7],
                   [op |-> "moveTo", x |-> 7, y |-> 0], [op |-> "lineTo", x |-> 7, y |-> 0]>>

====
